---- MODULE Spec2Model ----
(***************************************************************************)
(* Model of logfile_exporter.MyWatcher: the path-keyed log tailer built on *)
(* inotify.  The state is the watcher's registry (filestats, dirstats),    *)
(* the inotify instance it extends (watched inodes, event queue), the      *)
(* directory the log files live in, the handles opened on the files, and   *)
(* the calls made to the line handlers.  Files are sequences of            *)
(* one-character strings.                                                  *)
(***************************************************************************)
EXTENDS Integers, Sequences, FiniteSets, TLC

VARIABLES
    dir,        \* directory: file name -> inode number, 0 when no such entry
    content,    \* content[i]: the bytes of inode i (inodes are 1..Len(content))
    kwatch,     \* pairs <<i, p>>: inode i carries a file-level watch added as path p
    dirwatch,   \* TRUE when the directory carries the directory-level watch
    wpaths,     \* Watcher: path -> watch descriptor the library holds for it
    queue,      \* inotify events not yet handled by process_events
    filestats,  \* MyWatcher.filestats: path -> FileStats
    dirstats,   \* MyWatcher.dirstats[dirname].filenames (<<>>: no entry)
    calls,      \* handler -> the lines its process() was called with
    dispatched, \* the calls of process(), of all handlers, in the order made
    fds,        \* the handles codecs.open returned: how many (opened), which are
                \* open, and through which the bytes now in unprocessed were read
    logged,     \* number of handler exceptions caught and logged
    crashed,    \* TRUE once an exception has escaped process_events
    hist,       \* history: the add_handler calls and filesystem operations so far
    direxists,  \* TRUE while the directory of the log files exists
    prog        \* the program around the watcher: arguments, phase, counters

vars == <<dir, content, kwatch, dirwatch, wpaths, queue, filestats, dirstats,
          calls, dispatched, fds, logged, crashed, hist, direxists, prog>>

\* ---------------------------------------------------------------- bounds
MaxOps == 3
MaxInodes == 2
MaxHandlers == 2
MaxRunOps == 1      \* filesystem operations followed while run() is running
MaxLoop == 3        \* iterations followed of an event loop that does not end
MaxFailures == 1    \* failures, and errors, the handler testcases produce
MaxIOErrors == 1    \* reads of a log file that fail with IOError

\* ------------------------------------------------------------- constants
None == 0
NL == "\n"
CR == "\r"
SYSLOG == "syslog"
SYSLOG1 == "syslog.1"
MESSAGES == "messages"
\* os.path.dirname of the log files
DIRNAME == "logdir"
Names == {SYSLOG, SYSLOG1, MESSAGES}
RegPaths == {SYSLOG}
REC == "recorder"
BAD == "raiser"
HandlerIds == {REC, BAD}
\* the n-th step of the history writes the data character Data[n]
Data == <<"a", "b", "c", "d", "e", "f", "g", "h">>
DataChars == {Data[i] : i \in 1..Len(Data)}

\* ------------------------------------------------------- helpers
max(a, b) == IF a > b THEN a ELSE b
min(a, b) == IF a < b THEN a ELSE b

\* variant: the text is cut at its first newline
index(s) ==
    IF \E i \in 1..Len(s) : s[i] = NL
    THEN CHOOSE i \in 1..Len(s) : s[i] = NL /\ \A j \in 1..(i-1) : s[j] # NL
    ELSE 0
\* str.rindex('\n'): index of the last newline, 0 when there is none
rindex(s) ==
    IF \E i \in 1..Len(s) : s[i] = NL
    THEN CHOOSE i \in 1..Len(s) : s[i] = NL /\ \A j \in (i+1)..Len(s) : s[j] # NL
    ELSE 0

\* index of the first line boundary character of s, 0 when there is none
FirstBreak(s) ==
    IF \E i \in 1..Len(s) : s[i] \in {NL, CR}
    THEN CHOOSE i \in 1..Len(s) : s[i] \in {NL, CR} /\ \A j \in 1..(i-1) : s[j] \notin {NL, CR}
    ELSE 0

\* unicode.splitlines(): breaks at "\n", "\r" and "\r\n"; the terminators are
\* dropped and no empty string follows a final terminator
RECURSIVE splitlines(_)
splitlines(s) ==
    IF s = <<>> THEN <<>>
    ELSE LET b == FirstBreak(s)
         IN IF b = 0 THEN <<s>>
            ELSE LET e == IF s[b] = CR /\ b < Len(s) /\ s[b+1] = NL THEN b + 1 ELSE b
                 IN <<SubSeq(s, 1, b - 1)>> \o splitlines(SubSeq(s, e + 1, Len(s)))

\* ------------------------------------------------------------ events
Event(type, fullpath) == [type |-> type, fullpath |-> fullpath]

\* inotify appends an event to the queue unless it equals the newest queued one
Enqueue(q, e) == IF q # <<>> /\ q[Len(q)] = e THEN q ELSE Append(q, e)

\* IN_MODIFY for every file-level watch the inode carries
RECURSIVE EnqueueModify(_, _)
EnqueueModify(q, ps) ==
    IF ps = {} THEN q
    ELSE LET p == CHOOSE x \in ps : TRUE
         IN EnqueueModify(Enqueue(q, Event("modify", p)), ps \ {p})

WatchPaths(i) == {p \in Names : <<i, p>> \in kwatch}

\* events of the directory-level watch (DIR_EVENTS_TO_WATCH)
EnqueueDir(q, type, name) == IF dirwatch THEN Enqueue(q, Event(type, name)) ELSE q

\* ------------------------------------------------------------ handlers
\* the raising handler fails on the lines that hold one of these characters
RaiseOn == {"a", "c", "e", "g"}
Raises(h, line) == h = BAD /\ \E i \in 1..Len(line) : line[i] \in RaiseOn

\* variant: the except clause does not cover the handler's exception
caught_narrow(h, line) == FALSE
\* `except Exception` around handler.process(line): the loops go on
caught(h, line) == TRUE

\* ------------------------------------------------------------ MyWatcher
\* The watcher's own state and the inotify state its methods act on.
Self == [filestats |-> filestats, dirstats |-> dirstats, wpaths |-> wpaths,
         kwatch |-> kwatch, dirwatch |-> dirwatch, queue |-> queue,
         calls |-> calls, dispatched |-> dispatched, fds |-> fds,
         logged |-> logged, crashed |-> crashed]

NonePosition == -2
\* _filehandle is a file object: filehandle is the inode it reads, fd tells
\* it from the other handles opened, tell is its offset (what
\* filehandle.tell() returns); fd and tell are 0 when there is no handle
FileStats(handlers) ==
    [watchdescriptor |-> None, filehandle |-> None, fd |-> None, tell |-> 0,
     position_in_file |-> NonePosition, unprocessed |-> <<>>,
     handlers |-> handlers]

\* filehandle.close() of the handle of path, when there is one
close(w, path) ==
    [w EXCEPT !.fds.open[path] = @ \ {w.filestats[path].fd}]

\* variant: disable() leaves the watch descriptor in place
disable_keeps_wd(w, path) ==
    [close(w, path) EXCEPT !.filestats[path].filehandle = None,
                           !.filestats[path].fd = None,
                           !.filestats[path].tell = 0,
                           !.filestats[path].unprocessed = <<>>,
                           !.fds.carry[path] = {}]
\* FileStats.disable(): position_in_file keeps its value
disable(w, path) ==
    [close(w, path) EXCEPT !.filestats[path].watchdescriptor = None,
                           !.filestats[path].filehandle = None,
                           !.filestats[path].fd = None,
                           !.filestats[path].tell = 0,
                           !.filestats[path].unprocessed = <<>>,
                           !.fds.carry[path] = {}]

\* variant: the decorator left off the event methods
ignore_untracked_off(w, fullpath) == FALSE
ignore_untracked(w, fullpath) == fullpath \notin DOMAIN w.filestats

reset_filehandle(w, path, from_beginning_of_file) ==
    LET w0 == close(w, path)      \* nothing to close when filehandle is None
        handle == dir[path]       \* codecs.open fails (None) when there is no file
        position == IF handle = None THEN -1
                    ELSE IF from_beginning_of_file THEN 0
                    ELSE Len(content[handle])
        fd == IF handle = None THEN None ELSE w.fds.opened + 1
    IN [w0 EXCEPT !.fds.opened = IF handle = None THEN @ ELSE @ + 1,
                  !.fds.open[path] = IF handle = None THEN @ ELSE @ \cup {fd},
                  !.fds.carry[path] = {},
                  !.filestats[path].filehandle = handle,
                  !.filestats[path].fd = fd,
                  !.filestats[path].tell = IF handle = None THEN 0 ELSE position,
                  !.filestats[path].position_in_file = position,
                  !.filestats[path].unprocessed = <<>>]

\* Watcher.add(path, FILE_EVENTS_TO_WATCH): OSError when the path does not exist
Watcher_add(w, path) ==
    IF dir[path] = None THEN w
    ELSE [w EXCEPT !.kwatch = @ \cup {<<dir[path], path>>},
                   !.wpaths[path] = dir[path],
                   !.filestats[path].watchdescriptor = dir[path]]

\* an exception that nothing catches leaves process_events
raise(w) == [w EXCEPT !.crashed = TRUE]

\* variant: the watch is added and the file opened whether or not the path
\* has a watch descriptor
add_always(w, path, from_beginning_of_file) ==
    IF path \notin DOMAIN w.filestats THEN raise(w)
    ELSE LET w1 == reset_filehandle(Watcher_add(w, path), path, from_beginning_of_file)
         IN IF w1.dirstats # <<>>
            THEN [w1 EXCEPT !.dirstats = Append(@, path)]
            ELSE IF ~direxists THEN raise(w1)
            ELSE [w1 EXCEPT !.dirwatch = TRUE, !.dirstats = <<path>>]
\* MyWatcher.add: the file-level watch and the handle, unless the path has a
\* watch descriptor; then the DirStats entry and the directory-level watch
add(w, path, from_beginning_of_file) ==
    IF path \notin DOMAIN w.filestats THEN raise(w)     \* KeyError
    ELSE LET w1 == IF w.filestats[path].watchdescriptor = None
                   THEN reset_filehandle(Watcher_add(w, path), path, from_beginning_of_file)
                   ELSE w
         IN IF w1.dirstats # <<>>
            THEN [w1 EXCEPT !.dirstats = Append(@, path)]
            ELSE IF ~direxists THEN raise(w1)     \* OSError of Watcher.add(dirname)
            ELSE [w1 EXCEPT !.dirwatch = TRUE, !.dirstats = <<path>>]

add_handler(w, path, handler) ==
    LET w1 == IF path \in DOMAIN w.filestats
              THEN [w EXCEPT !.filestats[path].handlers = Append(@, handler)]
              ELSE [w EXCEPT !.filestats = @ @@ (path :> FileStats(<<handler>>))]
    IN add(w1, path, FALSE)

\* variant: the loops nested the other way round, every line to one handler
\* before the next handler
RECURSIVE dispatch_handler_major(_, _, _, _, _)
dispatch_handler_major(w, lines, handlers, i, j) ==
    IF j > Len(handlers) \/ lines = <<>> THEN w
    ELSE IF i > Len(lines) THEN dispatch_handler_major(w, lines, handlers, 1, j + 1)
    ELSE LET h == handlers[j]
             w1 == [w EXCEPT !.calls[h] = Append(@, lines[i]),
                             !.dispatched = Append(@, <<h, lines[i]>>),
                             !.logged = IF Raises(h, lines[i]) THEN @ + 1 ELSE @]
         IN IF Raises(h, lines[i]) /\ ~caught(h, lines[i]) THEN raise(w1)
            ELSE dispatch_handler_major(w1, lines, handlers, i + 1, j)
\* the two loops at the end of process_modify, from line i and handler j on
RECURSIVE dispatch(_, _, _, _, _)
dispatch(w, lines, handlers, i, j) ==
    IF i > Len(lines) THEN w
    ELSE IF j > Len(handlers) THEN dispatch(w, lines, handlers, i + 1, 1)
    ELSE LET h == handlers[j]
             w1 == [w EXCEPT !.calls[h] = Append(@, lines[i]),
                             !.dispatched = Append(@, <<h, lines[i]>>),
                             !.logged = IF Raises(h, lines[i]) THEN @ + 1 ELSE @]
         IN IF Raises(h, lines[i]) /\ ~caught(h, lines[i]) THEN raise(w1)
            ELSE dispatch(w1, lines, handlers, i, j + 1)

\* the first part of process_modify: a file smaller than position_in_file was
\* truncated, the handle is set back to the beginning
check_truncated(fs) ==
    IF Len(content[fs.filehandle]) < fs.position_in_file
    THEN [fs EXCEPT !.tell = 0, !.position_in_file = 0, !.unprocessed = <<>>]
    ELSE fs

\* what filehandle.read() then yields, the lines and the carry made of it, and
\* where it leaves the handle
ReadLines(fs0) ==
    LET fs == check_truncated(fs0)
        data == content[fs.filehandle]
        curr_size == Len(data)
        partial == SubSeq(data, fs.tell + 1, curr_size)
        last_newline == rindex(partial)
    IN [lines |-> IF last_newline = 0 THEN <<>>
                  ELSE splitlines(fs.unprocessed \o SubSeq(partial, 1, last_newline - 1)),
        unprocessed |-> IF last_newline = 0 THEN fs.unprocessed \o partial
                        ELSE SubSeq(partial, last_newline + 1, Len(partial)),
        position_in_file |-> max(fs.tell, curr_size)]

\* the ways a read can go: it succeeds, filehandle.read() raises IOError, or
\* filehandle.tell() does
IOOutcomes == {"ok", "read", "tell"}

\* the handles through which the bytes of the carry were read, once the read
\* has assigned unprocessed
carry_handles(fs0, through) ==
    LET fs == check_truncated(fs0)
        kept == IF fs = fs0 THEN through ELSE {}
        partial == SubSeq(content[fs.filehandle], fs.tell + 1, Len(content[fs.filehandle]))
    IN IF rindex(partial) = 0
       THEN IF partial = <<>> THEN kept ELSE kept \cup {fs.fd}
       ELSE IF rindex(partial) < Len(partial) THEN {fs.fd} ELSE {}

process_modify(w, fullpath, io) ==
    IF fullpath \notin DOMAIN w.filestats THEN raise(w)     \* KeyError
    ELSE LET fs == w.filestats[fullpath]
         IN IF fs.filehandle = None THEN w
            ELSE LET r == ReadLines(fs)
                     read == [check_truncated(fs) EXCEPT !.tell = r.position_in_file,
                                                         !.unprocessed = r.unprocessed]
                     through == carry_handles(fs, w.fds.carry[fullpath])
                 IN IF io = "read"
                    THEN [w EXCEPT !.filestats[fullpath] = check_truncated(fs),
                                   !.fds.carry[fullpath] =
                                       IF check_truncated(fs) = fs THEN @ ELSE {}]
                    ELSE IF io = "tell"
                    THEN [w EXCEPT !.filestats[fullpath] = read,
                                   !.fds.carry[fullpath] = through]
                    ELSE dispatch([w EXCEPT !.filestats[fullpath] =
                                       [read EXCEPT !.position_in_file = r.position_in_file],
                                            !.fds.carry[fullpath] = through],
                                  r.lines, fs.handlers, 1, 1)

process_ignored(w, fullpath) ==
    IF fullpath \notin DOMAIN w.filestats
    THEN raise(w)     \* `finally` uses filestats, which the KeyError left unbound
    ELSE LET w1 == disable(w, fullpath)
         IN IF dir[fullpath] # None THEN add(w1, fullpath, FALSE) ELSE w1

\* Watcher.remove_path(path): the kernel answers the removal with IN_IGNORED
remove_path(w, path) ==
    [w EXCEPT !.kwatch = @ \ {<<w.wpaths[path], path>>},
              !.wpaths[path] = None,
              !.queue = Enqueue(@, Event("ignored", path))]

process_moved_from(w, fullpath) ==
    IF ignore_untracked(w, fullpath) THEN w
    ELSE IF w.wpaths[fullpath] # None THEN remove_path(w, fullpath)
    ELSE process_ignored(w, fullpath)     \* InotifyWatcherException

process_delete(w, fullpath) == process_moved_from(w, fullpath)

process_moved_to(w, fullpath) ==
    IF ignore_untracked(w, fullpath) THEN w
    ELSE add(w, fullpath, FALSE)

process_create(w, fullpath, io) ==
    IF ignore_untracked(w, fullpath) THEN w
    ELSE LET w1 == add(w, fullpath, TRUE)
         IN IF w1.crashed THEN w1 ELSE process_modify(w1, fullpath, io)

\* process_events: the handler process_<event_type> of one event; io is how
\* the read goes, when the handler comes to read the file
handle(w, event, io) ==
    CASE event.type = "modify" -> process_modify(w, event.fullpath, io)
      [] event.type = "create" -> process_create(w, event.fullpath, io)
      [] event.type = "moved_to" -> process_moved_to(w, event.fullpath)
      [] event.type = "moved_from" -> process_moved_from(w, event.fullpath)
      [] event.type = "delete" -> process_delete(w, event.fullpath)
      [] event.type = "ignored" -> process_ignored(w, event.fullpath)

Install(w) ==
    /\ filestats' = w.filestats
    /\ dirstats' = w.dirstats
    /\ wpaths' = w.wpaths
    /\ kwatch' = w.kwatch
    /\ dirwatch' = w.dirwatch
    /\ queue' = w.queue
    /\ calls' = w.calls
    /\ dispatched' = w.dispatched
    /\ fds' = w.fds
    /\ logged' = w.logged
    /\ crashed' = w.crashed

\* ------------------------------------------------------------ actions
\* an entry of the history: the operation, its path(s)/handler, the inode it
\* acted on and the bytes it wrote
Op(op, name, arg, ino, data) ==
    [op |-> op, name |-> name, arg |-> arg, ino |-> ino, data |-> data]

\* ExitNone: the process has not exited
ExitNone == -1

\* the watcher used on its own, as TestWatcher.setUp does: no run() around it
Embedded ==
    [phase |-> "embedded", testcases |-> "skip", offline |-> FALSE, max_polls |-> -1,
     failures |-> 0, errors |-> 0, tests_run |-> FALSE,
     loopcount |-> 0, pollcount |-> 0, exit_code |-> ExitNone]

\* what syslog holds before the watcher starts, when it exists
InitContents == {<<"z", NL>>, <<"z">>}

WatcherInit ==
    /\ \/ dir = [n \in Names |-> None] /\ content = <<>>
       \/ \E c \in InitContents :
            dir = [n \in Names |-> IF n = SYSLOG THEN 1 ELSE None] /\ content = <<c>>
    /\ kwatch = {}
    /\ dirwatch = FALSE
    /\ wpaths = [n \in Names |-> None]
    /\ queue = <<>>
    /\ filestats = <<>>
    /\ dirstats = <<>>
    /\ calls = [h \in HandlerIds |-> <<>>]
    /\ dispatched = <<>>
    /\ fds = [opened |-> 0, open |-> [n \in Names |-> {}], carry |-> [n \in Names |-> {}]]
    /\ logged = 0
    /\ crashed = FALSE
    /\ hist = <<>>
    /\ direxists = TRUE

Init == WatcherInit /\ prog = Embedded

Registered == DOMAIN filestats # {}

\* filesystem_server.add_handler(filename, handler)
Register(path, h) ==
    /\ ~crashed
    /\ \/ path \notin DOMAIN filestats
       \/ /\ path \in DOMAIN filestats
          /\ Len(filestats[path].handlers) < MaxHandlers
          /\ Len(hist) <= MaxOps
    /\ Install(add_handler(Self, path, h))
    /\ hist' = Append(hist, Op("add_handler", path, h, dir[path], <<>>))
    /\ UNCHANGED <<dir, content, direxists, prog>>

\* handling the event comes to read the file: process_modify, reached
\* directly or from process_create, finds an open handle
reads(w, event) ==
    /\ event.fullpath \in DOMAIN w.filestats
    /\ \/ event.type = "modify" /\ w.filestats[event.fullpath].filehandle # None
       \/ /\ event.type = "create"
          /\ ~add(w, event.fullpath, TRUE).crashed
          /\ add(w, event.fullpath, TRUE).filestats[event.fullpath].filehandle # None

IOErrors == Cardinality({k \in 1..Len(hist) : hist[k].op = "ioerror"})

\* one turn of the loop of process_events, on the oldest event; a read that
\* fails is entered in the history
ProcessEvent ==
    /\ ~crashed
    /\ queue # <<>>
    /\ \E io \in IOOutcomes :
         /\ io # "ok" => /\ reads(Self, Head(queue))
                         /\ IOErrors < MaxIOErrors
                         /\ Len(hist) <= MaxOps
         /\ Install(handle([Self EXCEPT !.queue = Tail(queue)], Head(queue), io))
         /\ hist' = IF io = "ok" THEN hist
                    ELSE Append(hist, Op("ioerror", Head(queue).fullpath, io,
                                         dir[Head(queue).fullpath], <<>>))
    /\ UNCHANGED <<dir, content, direxists, prog>>

\* the filesystem operations are those of other processes; the history is
\* followed from the first add_handler on, for MaxOps further steps
FsStep ==
    /\ Registered
    /\ Len(hist) <= (IF prog.phase = "embedded" THEN MaxOps ELSE MaxRunOps)

\* open(name, 'w') of a name that has no file
Create(name) ==
    /\ FsStep
    /\ direxists
    /\ dir[name] = None
    /\ Len(content) < MaxInodes
    /\ content' = Append(content, <<>>)
    /\ dir' = [dir EXCEPT ![name] = Len(content) + 1]
    /\ queue' = EnqueueDir(queue, "create", name)
    /\ hist' = Append(hist, Op("create", name, "", Len(content) + 1, <<>>))
    /\ UNCHANGED <<kwatch, dirwatch, wpaths, filestats, dirstats, calls, dispatched, fds, logged, crashed, direxists, prog>>

Chunks(d) == {<<d>>, <<d, NL>>, <<NL>>, <<CR>>}

\* write and flush through a descriptor of inode i, wherever i is linked
Write(i) ==
    /\ FsStep
    /\ \E chunk \in Chunks(Data[Len(hist) + 1]) :
         /\ content' = [content EXCEPT ![i] = @ \o chunk]
         /\ hist' = Append(hist, Op("write", "", "", i, chunk))
    /\ queue' = EnqueueModify(queue, WatchPaths(i))
    /\ UNCHANGED <<dir, kwatch, dirwatch, wpaths, filestats, dirstats, calls, dispatched, fds, logged, crashed, direxists, prog>>

\* open(name, 'w') of an existing file
Truncate(name) ==
    /\ FsStep
    /\ dir[name] # None
    /\ content[dir[name]] # <<>>
    /\ content' = [content EXCEPT ![dir[name]] = <<>>]
    /\ queue' = EnqueueModify(queue, WatchPaths(dir[name]))
    /\ hist' = Append(hist, Op("truncate", name, "", dir[name], <<>>))
    /\ UNCHANGED <<dir, kwatch, dirwatch, wpaths, filestats, dirstats, calls, dispatched, fds, logged, crashed, direxists, prog>>

\* shutil.move(src, dst) inside the directory
Rename(src, dst) ==
    /\ FsStep
    /\ src # dst
    /\ dir[src] # None
    /\ dir' = [dir EXCEPT ![dst] = dir[src], ![src] = None]
    /\ queue' = EnqueueDir(EnqueueDir(queue, "moved_from", src), "moved_to", dst)
    /\ hist' = Append(hist, Op("rename", src, dst, dir[src], <<>>))
    /\ UNCHANGED <<content, kwatch, dirwatch, wpaths, filestats, dirstats, calls, dispatched, fds, logged, crashed, direxists, prog>>

\* os.unlink(name)
Unlink(name) ==
    /\ FsStep
    /\ dir[name] # None
    /\ dir' = [dir EXCEPT ![name] = None]
    /\ queue' = EnqueueDir(queue, "delete", name)
    /\ hist' = Append(hist, Op("unlink", name, "", dir[name], <<>>))
    /\ UNCHANGED <<content, kwatch, dirwatch, wpaths, filestats, dirstats, calls, dispatched, fds, logged, crashed, direxists, prog>>

\* the directory, emptied, is removed (shutil.rmtree): the kernel drops the
\* directory-level watch and reports IN_IGNORED for it
RemoveDir ==
    /\ FsStep
    /\ direxists
    /\ \A n \in Names : dir[n] = None
    /\ direxists' = FALSE
    /\ dirwatch' = FALSE
    /\ queue' = EnqueueDir(queue, "ignored", DIRNAME)
    /\ hist' = Append(hist, Op("rmdir", DIRNAME, "", None, <<>>))
    /\ UNCHANGED <<dir, content, kwatch, wpaths, filestats, dirstats, calls, dispatched, fds, logged, crashed, prog>>

Next ==
    \/ \E p \in RegPaths, h \in HandlerIds : Register(p, h)
    \/ ProcessEvent
    \/ \E n \in Names : Create(n)
    \/ \E i \in 1..Len(content) : Write(i)
    \/ \E n \in Names : Truncate(n)
    \/ \E s \in Names, d \in Names : Rename(s, d)
    \/ \E n \in Names : Unlink(n)
    \/ RemoveDir

Spec == Init /\ [][Next]_vars

\* ------------------------------------------------------------ run()
\* The program: run() parses the arguments, runs the testcases of the
\* handlers, then run_online() registers the log files and loops over poll().
\* The operator interrupting the loop (KeyboardInterrupt) is left out.
TestcasesChoices == {"skip", "strict", "run", "run-then-quit"}
MaxPollsChoices == (-2)..MaxLoop

\* myfiles: the (filename, handler) pairs given to run()
logfiles == <<<<SYSLOG, REC>>>>

\* variant: the two counts combined with min
exit_code_min(failures, errors) == IF min(failures, errors) = 0 THEN 0 ELSE 9
\* exit_code = 0 if max(failures, errors) == 0 else 9
exit_code(failures, errors) == IF max(failures, errors) = 0 THEN 0 ELSE 9

RunInit ==
    /\ WatcherInit
    /\ \E t \in TestcasesChoices, o \in BOOLEAN, m \in MaxPollsChoices :
         prog = [phase |-> "run", testcases |-> t, offline |-> o, max_polls |-> m,
                 failures |-> 0, errors |-> 0, tests_run |-> FALSE,
                 loopcount |-> 0, pollcount |-> 0, exit_code |-> ExitNone]

\* sys.exit(code), or an exception that leaves run() (code 1)
exit(p, code) == [p EXCEPT !.phase = "exited", !.exit_code = code]

\* run(): the testcases block; f and e are what run_testcases returns
RunTestcases ==
    /\ prog.phase = "run"
    /\ IF prog.testcases = "skip"
       THEN prog' = [prog EXCEPT !.phase = "tailing"]
       ELSE \E f \in 0..MaxFailures, e \in 0..MaxFailures :
              LET p1 == [prog EXCEPT !.tests_run = TRUE, !.failures = f, !.errors = e]
              IN prog' = IF prog.testcases = "run-then-quit" THEN exit(p1, exit_code(f, e))
                         ELSE IF prog.testcases = "strict" /\ max(f, e) > 0 THEN exit(p1, 9)
                         ELSE [p1 EXCEPT !.phase = "tailing"]
    /\ UNCHANGED <<dir, content, kwatch, dirwatch, wpaths, queue, filestats, dirstats,
                   calls, dispatched, fds, logged, crashed, hist, direxists>>

\* run_online: filesystem_server.add_handler(filename, handler) for each log file
RECURSIVE add_handlers(_, _)
add_handlers(w, files) ==
    IF files = <<>> \/ w.crashed THEN w
    ELSE add_handlers(add_handler(w, Head(files)[1], Head(files)[2]), Tail(files))

\* run(): run_offline raises NotImplementedError; run_online sets up the
\* watcher and enters the loop
StartTailing ==
    /\ prog.phase = "tailing"
    /\ IF prog.offline
       THEN /\ prog' = exit(prog, 1)
            /\ UNCHANGED <<kwatch, dirwatch, wpaths, queue, filestats, dirstats,
                           calls, dispatched, fds, logged, crashed, hist>>
       ELSE LET w == add_handlers(Self, logfiles)
            IN /\ Install(w)
               /\ hist' = hist \o [k \in 1..Len(logfiles) |->
                                     Op("add_handler", logfiles[k][1], logfiles[k][2],
                                        dir[logfiles[k][1]], <<>>)]
               /\ prog' = IF w.crashed THEN exit(prog, 1)
                          ELSE [prog EXCEPT !.phase = "online"]
    /\ UNCHANGED <<dir, content, direxists>>

\* process_events: every event of the read, in order (the reads of the log
\* files succeed)
RECURSIVE process_events(_, _)
process_events(w, events) ==
    IF events = <<>> \/ w.crashed THEN w
    ELSE process_events(handle(w, Head(events), "ok"), Tail(events))

\* the condition of the while loop of run_online
loop_continues(p) == p.max_polls <= 0 \/ p.loopcount < p.max_polls

\* one iteration of the loop: poll() returns (the watcher is ready when events
\* are queued; a request to the HTTP server changes nothing here), the counts
\* are incremented, then process_events handles what was read
Poll ==
    /\ prog.phase = "online"
    /\ loop_continues(prog)
    /\ prog.loopcount < MaxLoop
    /\ LET w == process_events([Self EXCEPT !.queue = <<>>], queue)
           p1 == [prog EXCEPT !.pollcount = @ + 1, !.loopcount = @ + 1]
       IN /\ Install(w)
          /\ prog' = IF w.crashed THEN exit(p1, 1) ELSE p1
    /\ UNCHANGED <<dir, content, hist, direxists>>

\* the loop ends: 'Terminating program.', run() returns
Terminate ==
    /\ prog.phase = "online"
    /\ ~loop_continues(prog)
    /\ prog' = exit(prog, 0)
    /\ UNCHANGED <<dir, content, kwatch, dirwatch, wpaths, queue, filestats, dirstats,
                   calls, dispatched, fds, logged, crashed, hist, direxists>>

RunNext ==
    \/ RunTestcases
    \/ StartTailing
    \/ Poll
    \/ Terminate
    \/ \E n \in Names : Create(n)
    \/ \E i \in 1..Len(content) : Write(i)
    \/ \E n \in Names : Truncate(n)
    \/ \E s \in Names, d \in Names : Rename(s, d)
    \/ \E n \in Names : Unlink(n)
    \/ RemoveDir

RunSpec == RunInit /\ [][RunNext]_vars

\* ------------------------------------------------------------ vocabulary
\* every pending event has been handled
Drained == queue = <<>>

\* the complete lines of s: the segments that a "\n" terminates, in order
RECURSIVE CompleteLines(_)
CompleteLines(s) ==
    IF \A i \in 1..Len(s) : s[i] # NL THEN <<>>
    ELSE LET n == CHOOSE i \in 1..Len(s) : s[i] = NL /\ \A j \in 1..(i-1) : s[j] # NL
         IN <<SubSeq(s, 1, n - 1)>> \o CompleteLines(SubSeq(s, n + 1, Len(s)))

\* the bytes that the steps from..to of the history wrote to inode i
RECURSIVE Written(_, _, _)
Written(i, from, to) ==
    IF from > to THEN <<>>
    ELSE (IF hist[from].op = "write" /\ hist[from].ino = i THEN hist[from].data ELSE <<>>)
         \o Written(i, from + 1, to)

\* how often line occurs in the sequence of lines ls
Count(line, ls) == Cardinality({k \in 1..Len(ls) : ls[k] = line})

NoCR(s) == \A i \in 1..Len(s) : s[i] # CR

IsOp(k, op, name) == hist[k].op = op /\ hist[k].name = name

\* the history is: add_handler on the existing syslog, which ends with a
\* newline, then nothing but writes to that file
OnlyAppends ==
    /\ hist # <<>>
    /\ IsOp(1, "add_handler", SYSLOG)
    /\ hist[1].ino = 1
    /\ \A k \in 2..Len(hist) : hist[k].op = "write" /\ hist[k].ino = 1
    /\ content[1][Len(content[1]) - Len(Written(1, 2, Len(hist)))] = NL

\* ------------------------------------------------------------ C1
\* steps 1..k-1 of the history: add_handler on the existing syslog, then
\* nothing but writes to that file (the path is attached to inode 1)
AttachedUntil(k) ==
    /\ k >= 2
    /\ k <= Len(hist) + 1
    /\ IsOp(1, "add_handler", SYSLOG)
    /\ hist[1].ino = 1
    /\ \A j \in 2..(k - 1) : hist[j].op = "write" /\ hist[j].ino = 1

HasData(line) == \E i \in 1..Len(line) : line[i] \in DataChars

\* no line that holds a data character was received twice
NoRepeat(ls) ==
    \A i \in 1..Len(ls), j \in 1..Len(ls) : (i < j /\ HasData(ls[i])) => ls[i] # ls[j]

\* steps k, k+1, k+2 end the history: syslog is renamed away (or unlinked),
\* created anew, and the line <<x>> is appended to the new file
Rotated(k, x) ==
    /\ AttachedUntil(k)
    /\ Len(hist) = k + 2
    /\ IsOp(k, "rename", SYSLOG) \/ IsOp(k, "unlink", SYSLOG)
    /\ IsOp(k + 1, "create", SYSLOG)
    /\ hist[k + 2].op = "write"
    /\ hist[k + 2].ino = hist[k + 1].ino
    /\ hist[k + 2].data = <<x, NL>>

\* C1 (rotation continuity): after rename(path, path.1) or unlink(path), then
\* create(path), then append(path, "X\n") on an attached path, once the events
\* are drained the handler has received the line "X" exactly once and no
\* earlier line twice, wherever the event handling fell among the operations.
C1_RotationContinuity ==
    \A k \in 2..Len(hist) : \A x \in DataChars :
        (Rotated(k, x) /\ Drained) =>
            /\ Count(<<x>>, calls[hist[1].arg]) = 1
            /\ NoRepeat(calls[hist[1].arg])

\* ------------------------------------------------------------ C2
\* C2 (switch to the new file): whenever the events are drained and a file
\* exists at a registered path, the path's FileStats holds an open handle on
\* the inode that is at the path now.
C2_SwitchToNewFile ==
    \A p \in DOMAIN filestats :
        (Drained /\ dir[p] # None) => filestats[p].filehandle = dir[p]

\* ------------------------------------------------------------ C3
\* the history is: add_handler while syslog does not exist, then the creation
\* of syslog, then nothing but writes to it
CreatedAfterRegistration ==
    /\ Len(hist) >= 2
    /\ IsOp(1, "add_handler", SYSLOG)
    /\ hist[1].ino = None
    /\ IsOp(2, "create", SYSLOG)
    /\ \A k \in 3..Len(hist) : hist[k].op = "write" /\ hist[k].ino = hist[2].ino

\* C3 (created after registration): a path registered while no file exists,
\* whose file is then created and appended to, has once the events are drained
\* delivered every complete line of the file exactly once, in file order, from
\* offset 0 on.
C3_CreatedAfterRegistration ==
    (CreatedAfterRegistration /\ Drained) =>
        calls[hist[1].arg] = CompleteLines(content[hist[2].ino])

\* ------------------------------------------------------------ C4
\* C4 (existing file, late registration): add_handler on an existing file
\* starts at its end, so no line the file held at that time is ever delivered
\* ("z" is what the file held), and every complete line appended afterwards
\* is delivered exactly once (stated for text without carriage returns).
C4_ExistingFile ==
    /\ \A h \in HandlerIds : \A k \in 1..Len(calls[h]) :
          \A i \in 1..Len(calls[h][k]) : calls[h][k][i] # "z"
    /\ (OnlyAppends /\ Drained /\ NoCR(Written(1, 2, Len(hist)))) =>
          /\ Len(calls[hist[1].arg]) = Len(CompleteLines(Written(1, 2, Len(hist))))
          /\ \A k \in 1..Len(calls[hist[1].arg]) :
                calls[hist[1].arg][k] = CompleteLines(Written(1, 2, Len(hist)))[k]

\* ------------------------------------------------------------ C5
\* C5 (exactly-once delivery): when the file of an attached path is only
\* appended to, then once the events are drained the handler has received
\* exactly the complete newline-terminated lines appended since the
\* attachment, in file order, empty lines included.
C5_ExactlyOnce ==
    (OnlyAppends /\ Drained) =>
        calls[hist[1].arg] = CompleteLines(Written(1, 2, Len(hist)))

\* ------------------------------------------------------------ C6
\* the step handles the oldest event, of the given type, for path p
Handles(type, p) ==
    /\ ~crashed
    /\ queue # <<>>
    /\ hist' = hist
    /\ Head(queue) = Event(type, p)

\* the bytes a read of the handle of fs returns when nothing was truncated
Unread(fs) == SubSeq(content[fs.filehandle], fs.position_in_file + 1,
                     Len(content[fs.filehandle]))

\* the lines the step added to the calls of handler h
Received(h) == SubSeq(calls'[h], Len(calls[h]) + 1, Len(calls'[h]))

\* index of the first newline of s, 0 when there is none
FirstNL(s) ==
    IF \E i \in 1..Len(s) : s[i] = NL
    THEN CHOOSE i \in 1..Len(s) : s[i] = NL /\ \A j \in 1..(i-1) : s[j] # NL
    ELSE 0

\* a MODIFY is handled for p while bytes are held in unprocessed, and no file
\* was ever truncated
ReadWithCarry(p) ==
    /\ Handles("modify", p)
    /\ p \in DOMAIN filestats
    /\ filestats[p].filehandle # None
    /\ filestats[p].unprocessed # <<>>
    /\ \A k \in 1..Len(hist) : hist[k].op # "truncate"

\* C6 (last-line-hold): bytes read after the last newline are not dispatched
\* on their own; they are held, and the read that supplies the newline
\* dispatches one line: the held bytes followed by the new bytes up to it.
C6_LastLineHoldStep ==
    \A p \in RegPaths :
        ReadWithCarry(p) =>
            LET fs == filestats[p]
                n == FirstNL(Unread(fs))
            IN \A h \in HandlerIds :
                 (\E j \in 1..Len(fs.handlers) : fs.handlers[j] = h) =>
                    IF n = 0
                    THEN /\ Received(h) = <<>>
                         /\ filestats'[p].unprocessed = fs.unprocessed \o Unread(fs)
                    ELSE /\ Received(h) # <<>>
                         /\ Received(h)[1] = fs.unprocessed \o SubSeq(Unread(fs), 1, n - 1)

C6_LastLineHold == [][C6_LastLineHoldStep]_vars

\* ------------------------------------------------------------ C7
\* step k renames the attached syslog to syslog.1 and nothing renames it back
\* before step m
MovedOut(k, m) ==
    /\ AttachedUntil(k)
    /\ k <= Len(hist)
    /\ IsOp(k, "rename", SYSLOG)
    /\ \A j \in (k + 1)..(m - 1) : ~IsOp(j, "rename", SYSLOG1)

\* C7 (moved-out is no longer tailed): once syslog has been renamed away, the
\* bytes written afterwards to the renamed-away inode are never delivered,
\* whereas a line written afterwards to a new file at syslog is delivered
\* once the events are drained.
C7_MovedOutNotTailed ==
    \A k \in 2..Len(hist) : \A m \in (k + 1)..Len(hist) :
        (MovedOut(k, m) /\ hist[m].op = "write") =>
            /\ hist[m].ino = hist[k].ino =>
                  \A h \in HandlerIds : \A n \in 1..Len(calls[h]) :
                      \A i \in 1..Len(calls[h][n]) : calls[h][n][i] # Data[m]
            /\ (/\ hist[m].ino = dir[SYSLOG]
                /\ hist[m].ino # hist[k].ino
                /\ hist[m].data = <<Data[m], NL>>
                /\ Drained) =>
                  Count(<<Data[m]>>, calls[hist[1].arg]) = 1

\* ------------------------------------------------------------ C8
\* add_handler while syslog does not exist; then syslog.1 is created and
\* written to; step k renames it to syslog; then nothing but writes to it
MovedIn(k) ==
    /\ k >= 3
    /\ k <= Len(hist)
    /\ IsOp(1, "add_handler", SYSLOG)
    /\ hist[1].ino = None
    /\ IsOp(2, "create", SYSLOG1)
    /\ \A j \in 3..(k - 1) : hist[j].op = "write" /\ hist[j].ino = hist[2].ino
    /\ IsOp(k, "rename", SYSLOG1)
    /\ \A j \in (k + 1)..Len(hist) : hist[j].op = "write" /\ hist[j].ino = hist[2].ino

\* C8 (moved-in file): a file renamed onto a detached registered path is
\* attached at its end: the lines it held at the rename are not delivered and
\* every complete line appended afterwards is delivered exactly once (stated
\* for text without carriage returns and a file that ended with a newline).
C8_MovedIn ==
    \A k \in 3..Len(hist) :
        (/\ MovedIn(k)
         /\ Drained
         /\ NoCR(content[hist[2].ino])
         /\ Written(hist[2].ino, 1, k) = <<>> \/ Written(hist[2].ino, 1, k)[Len(Written(hist[2].ino, 1, k))] = NL) =>
            LET expected == CompleteLines(Written(hist[2].ino, k + 1, Len(hist)))
                got == calls[hist[1].arg]
            IN /\ Len(got) = Len(expected)
               /\ \A n \in 1..Len(got) : got[n] = expected[n]

\* ------------------------------------------------------------ C9
FsOps == {"create", "write", "truncate", "rename", "unlink"}

\* inode i has never been the file of a registered path
NeverTracked(i) ==
    \A k \in 1..Len(hist) :
        hist[k].ino = i =>
            /\ hist[k].op # "add_handler"
            /\ hist[k].name \notin RegPaths
            /\ hist[k].arg \notin RegPaths

\* o is a filesystem operation on a file that is not registered
UntrackedOp(o) ==
    /\ o.op \in FsOps
    /\ o.name \notin RegPaths
    /\ o.arg \notin RegPaths
    /\ NeverTracked(o.ino)

\* o appends one complete line to the registered file, inode 1
LineWrite(o, k) == o.op = "write" /\ o.ino = 1 /\ o.data = <<Data[k], NL>>

\* the history is: add_handler on the existing syslog, which ends with a
\* newline; then operations on unregistered files and whole lines appended
\* to syslog
SiblingsAndLines ==
    /\ hist # <<>>
    /\ IsOp(1, "add_handler", SYSLOG)
    /\ hist[1].ino = 1
    /\ \A k \in 2..Len(hist) : UntrackedOp(hist[k]) \/ LineWrite(hist[k], k)
    /\ Len(content[1]) > Len(Written(1, 2, Len(hist)))
    /\ content[1][Len(content[1]) - Len(Written(1, 2, Len(hist)))] = NL

\* the FileStats that add_handler left for a path whose file is inode i
AsRegistered(i, h) ==
    [watchdescriptor |-> i, filehandle |-> i,
     fd |-> IF i = None THEN None ELSE 1,
     tell |-> IF i = None THEN 0 ELSE Len(content[i]),
     position_in_file |-> IF i = None THEN -1 ELSE Len(content[i]),
     unprocessed |-> <<>>, handlers |-> <<h>>]

C9_Inv ==
    /\ SiblingsAndLines =>
          /\ calls[hist[1].arg] =
                SubSeq(CompleteLines(Written(1, 2, Len(hist))), 1, Len(calls[hist[1].arg]))
          /\ Drained => calls[hist[1].arg] = CompleteLines(Written(1, 2, Len(hist)))
          /\ \A h \in HandlerIds \ {hist[1].arg} : calls[h] = <<>>
          /\ ~crashed
    /\ (/\ hist # <<>>
        /\ IsOp(1, "add_handler", SYSLOG)
        /\ \A k \in 2..Len(hist) : UntrackedOp(hist[k])) =>
          /\ filestats[SYSLOG] = AsRegistered(hist[1].ino, hist[1].arg)
          /\ \A h \in HandlerIds : calls[h] = <<>>

C9_Step ==
    /\ (Len(hist') = Len(hist) + 1 /\ UntrackedOp(hist'[Len(hist')])) =>
          /\ filestats' = filestats
          /\ calls' = calls
          /\ \A n \in (Len(queue) + 1)..Len(queue') :
                queue'[n].fullpath \notin DOMAIN filestats
    /\ (/\ ~crashed
        /\ queue # <<>>
        /\ hist' = hist
        /\ Head(queue).fullpath \in Names
        /\ Head(queue).fullpath \notin DOMAIN filestats) =>
          /\ filestats' = filestats
          /\ dirstats' = dirstats
          /\ calls' = calls
          /\ logged' = logged
          /\ kwatch' = kwatch
          /\ wpaths' = wpaths
          /\ ~crashed'
          /\ queue' = Tail(queue)

\* C9 (non-subscription isolation): creating, writing, renaming or deleting
\* a file that is not registered, in the watched directory, calls no handler
\* and changes no FileStats: the operation raises events for unregistered
\* paths only, handling such an event changes nothing, and the lines written
\* meanwhile to the registered file are delivered all the same.
C9_Isolation == []C9_Inv /\ [][C9_Step]_vars

\* an unregistered file was created and written to and its events handled,
\* and a line written to syslog was delivered
C9_Witness ==
    /\ SiblingsAndLines
    /\ Drained
    /\ \E k \in 2..Len(hist) : hist[k].op = "write" /\ UntrackedOp(hist[k])
    /\ calls[hist[1].arg] # <<>>

\* ------------------------------------------------------------ C10
Occurrences(h, handlers) == Cardinality({j \in 1..Len(handlers) : handlers[j] = h})

\* the calls one handler gets for the lines: each line, once per registration
RECURSIVE Repeat(_, _)
Repeat(lines, n) ==
    IF lines = <<>> THEN <<>>
    ELSE [j \in 1..n |-> Head(lines)] \o Repeat(Tail(lines), n)

C10_Step ==
    /\ \A p \in RegPaths :
        (/\ Handles("modify", p)
         /\ p \in DOMAIN filestats
         /\ filestats[p].filehandle # None) =>
            LET fs == filestats[p]
                r == ReadLines(fs)
            IN /\ \A h \in HandlerIds :
                    calls'[h] = calls[h] \o Repeat(r.lines, Occurrences(h, fs.handlers))
               /\ filestats'[p] = [fs EXCEPT !.unprocessed = r.unprocessed,
                                             !.tell = r.position_in_file,
                                             !.position_in_file = r.position_in_file]
               /\ ~crashed'
               /\ queue' = Tail(queue)
    /\ \A p \in RegPaths :
        (/\ ~crashed
         /\ queue # <<>>
         /\ hist' = hist
         /\ Head(queue).fullpath = p
         /\ p \in DOMAIN filestats) =>
            /\ ~crashed'
            /\ \A h1 \in HandlerIds, h2 \in HandlerIds :
                  Occurrences(h1, filestats[p].handlers) = Occurrences(h2, filestats[p].handlers)
                      => Received(h1) = Received(h2)

\* C10 (failure isolation): when a handler's process(line) raises, the other
\* handlers of the path still receive that line, every handler still receives
\* the following lines of the read and of later reads, and the FileStats is
\* what the read alone makes it.
C10_FailureIsolation == [][C10_Step]_vars

\* the raising handler, registered first, failed on a line; the recorder
\* received that line and the next one, and so did the raising handler
C10_Witness ==
    /\ SYSLOG \in DOMAIN filestats
    /\ filestats[SYSLOG].handlers = <<BAD, REC>>
    /\ logged > 0
    /\ Len(calls[BAD]) >= 2
    /\ Raises(BAD, calls[BAD][1])
    /\ calls[REC] = calls[BAD]

\* ------------------------------------------------------------ C11
\* the step is add_handler(p, h) for a path whose FileStats holds a watch
\* descriptor
RegistersOnWatched(p, h) ==
    /\ Len(hist') = Len(hist) + 1
    /\ hist'[Len(hist')].op = "add_handler"
    /\ hist'[Len(hist')].name = p
    /\ hist'[Len(hist')].arg = h
    /\ p \in DOMAIN filestats
    /\ filestats[p].watchdescriptor # None

\* the bytes one read of the handle of fs returns
ReadBytes(fs) ==
    IF Len(content[fs.filehandle]) < fs.position_in_file
    THEN content[fs.filehandle]
    ELSE Unread(fs)

\* the carry the read starts from
CarryBefore(fs) ==
    IF Len(content[fs.filehandle]) < fs.position_in_file THEN <<>> ELSE fs.unprocessed

C11_Step ==
    /\ \A p \in RegPaths, h \in HandlerIds :
          RegistersOnWatched(p, h) =>
             /\ kwatch' = kwatch
             /\ wpaths' = wpaths
             /\ queue' = queue
             /\ calls' = calls
             /\ filestats'[p] = [filestats[p] EXCEPT !.handlers = Append(@, h)]
    /\ \A p \in RegPaths :
          (/\ Handles("modify", p)
           /\ p \in DOMAIN filestats
           /\ filestats[p].filehandle # None) =>
             LET fs == filestats[p]
                 lines == CompleteLines(CarryBefore(fs) \o ReadBytes(fs))
             IN /\ filestats'[p].position_in_file = Len(content[fs.filehandle])
                /\ \A h \in HandlerIds :
                      Received(h) = Repeat(lines, Occurrences(h, fs.handlers))

\* C11 (at most one watch per path): add_handler for a path that is already
\* watched installs no further file watch and neither reopens nor repositions
\* the handle; a change of a file with several handlers is read once, and
\* every complete line of that read is delivered exactly once to every
\* handler.
C11_OneWatchPerPath == [][C11_Step]_vars

\* ------------------------------------------------------------ C12
\* the history is: add_handler on the existing syslog, writes to it, its
\* truncation at step k, then nothing but writes to it
TruncatedAt(k) ==
    /\ AttachedUntil(k)
    /\ k <= Len(hist)
    /\ IsOp(k, "truncate", SYSLOG)
    /\ \A j \in (k + 1)..Len(hist) : hist[j].op = "write" /\ hist[j].ino = 1

\* line holds a byte written after step k
WrittenAfter(line, k) ==
    \E i \in 1..Len(line) : \E m \in (k + 1)..Len(hist) : line[i] = Data[m]

\* C12 (truncation): when an attached file is truncated and lines are then
\* written to it, the carry from before the truncation is discarded and the
\* lines written after the truncation are delivered from offset 0 of the new
\* content, whatever amount was written before the MODIFY is handled: once
\* the events are drained, the calls end with the complete lines of the new
\* content, and nothing before them holds a byte of the new content.
C12_Truncation ==
    \A k \in 2..Len(hist) :
        (TruncatedAt(k) /\ Drained) =>
            LET got == calls[hist[1].arg]
                expected == CompleteLines(content[1])
                n == Len(got) - Len(expected)
            IN /\ n >= 0
               /\ SubSeq(got, n + 1, Len(got)) = expected
               /\ \A j \in 1..n : ~WrittenAfter(got[j], k)

\* ------------------------------------------------------------ C13
\* the step handles the oldest event, which is for a path the registry does
\* not hold
HandlesUnknown ==
    /\ ~crashed
    /\ queue # <<>>
    /\ hist' = hist
    /\ Head(queue).fullpath \notin DOMAIN filestats

C13_Step ==
    HandlesUnknown =>
        /\ filestats' = filestats
        /\ dirstats' = dirstats
        /\ calls' = calls
        /\ ~crashed'

\* C13 (unknown-path events are ignored): an event of any kind whose path is
\* not in the registry, the IGNORED of a watched directory included, changes
\* no FileStats and no DirStats, calls no handler and lets no error escape
\* process_events.
C13_UnknownPathIgnored == [][C13_Step]_vars

\* ------------------------------------------------------------ C14
\* the step is one iteration of the event loop
Iterates == prog.phase = "online" /\ prog'.loopcount = prog.loopcount + 1

\* the step is the normal end of the event loop
LoopEnds == prog.phase = "online" /\ prog'.phase = "exited" /\ prog'.exit_code = 0

C14_Inv ==
    (prog.phase \in {"online", "exited"} /\ prog.max_polls >= 0) =>
        /\ prog.loopcount <= prog.max_polls
        /\ prog.pollcount = prog.loopcount

C14_Step ==
    /\ Iterates =>
          /\ prog'.pollcount = prog.pollcount + 1
          /\ prog.max_polls >= 0 => prog.loopcount < prog.max_polls
    /\ LoopEnds =>
          /\ prog.max_polls # -1
          /\ prog.loopcount = prog.max_polls
          /\ prog.pollcount = prog.max_polls

\* C14 (event-loop termination): with --max-polls N, N >= 0, the loop stops
\* after exactly N iterations, pollcount having been incremented once per
\* iteration, N times; only with -1 does the loop go on for ever.
C14_LoopTermination == []C14_Inv /\ [][C14_Step]_vars

\* ------------------------------------------------------------ C15
\* run() has passed the testcases block: run_online (or run_offline) is next
\* or has been entered
TailingStarted == prog.phase \in {"tailing", "online"}

NoTestTrouble == prog.failures = 0 /\ prog.errors = 0

C15_Inv ==
    /\ TailingStarted =>
          \/ prog.testcases = "skip" /\ ~prog.tests_run
          \/ prog.testcases = "run" /\ prog.tests_run
          \/ prog.testcases = "strict" /\ prog.tests_run /\ NoTestTrouble
    /\ (prog.phase = "exited" /\ prog.testcases = "run-then-quit") =>
          /\ prog.tests_run
          /\ prog.exit_code = (IF NoTestTrouble THEN 0 ELSE 9)
          /\ filestats = <<>>
    /\ (prog.phase = "exited" /\ prog.testcases = "strict" /\ ~NoTestTrouble) =>
          /\ prog.exit_code = 9
          /\ filestats = <<>>
    /\ (prog.phase = "online") => DOMAIN filestats = {logfiles[k][1] : k \in 1..Len(logfiles)}

C15_Step ==
    /\ prog.phase = "run" /\ prog'.phase # "run" =>
          /\ prog.testcases = "skip" => prog'.phase = "tailing"
          /\ prog.testcases = "run" => prog'.phase = "tailing"
          /\ prog.testcases = "strict" =>
                prog'.phase = (IF prog'.failures = 0 /\ prog'.errors = 0
                               THEN "tailing" ELSE "exited")
          /\ prog.testcases = "run-then-quit" => prog'.phase = "exited"
    /\ (prog.phase = "tailing" /\ prog'.phase # "tailing" /\ ~prog.offline) =>
          prog'.phase = "online"

\* C15 (testcases mode and exit codes): with 'skip' no handler test runs and
\* tailing starts; with 'run' the tests run and tailing starts whatever the
\* result; with 'strict' tailing starts only if there was no failure and no
\* error, otherwise the process exits with code 9 before any tailing; with
\* 'run-then-quit' tailing never starts and the exit code is 0 if there was
\* no failure and no error, else 9.  ("Tailing starts": run() goes on to
\* run_online, which registers the log files and enters the loop.)
C15_TestcasesModes == []C15_Inv /\ [][C15_Step]_vars

\* under 'strict' the tests ended with an error and no failure: exit code 9,
\* nothing registered
C15_Witness ==
    /\ prog.phase = "exited"
    /\ prog.testcases = "strict"
    /\ prog.failures = 0
    /\ prog.errors > 0
    /\ prog.exit_code = 9
    /\ filestats = <<>>

\* ------------------------------------------------------------ C16
\* p is attached: a file-level watch is held and the handle is open
Attached(p) ==
    /\ p \in DOMAIN filestats
    /\ filestats[p].watchdescriptor # None
    /\ filestats[p].filehandle # None

\* the inotify instance holds a file-level watch added for path p
LiveWatch(p) == \E i \in 1..Len(content) : <<i, p>> \in kwatch

C16_Step ==
    \A p \in RegPaths : \A t \in {"moved_from", "delete"} :
        (Handles(t, p) /\ Attached(p)) =>
            /\ ~(LiveWatch(p))'
            /\ filestats'[p].watchdescriptor = None
            /\ filestats'[p].filehandle = None
            /\ filestats'[p].unprocessed = <<>>
            /\ handle([Self EXCEPT !.queue = Tail(queue)], Event("moved_from", p), "ok")
                 = handle([Self EXCEPT !.queue = Tail(queue)], Event("delete", p), "ok")

\* C16 (detach on MOVED_OUT / DELETED): right after process_events has
\* handled a MOVED_FROM or a DELETE for an attached registered path, with no
\* further event, the path is detached: its file-level watch is removed, its
\* handle is closed and absent, its carry is empty; both kinds of event give
\* the same state.
C16_DetachOnMovedOut == [][C16_Step]_vars

\* ------------------------------------------------------------ C17
C17_Step ==
    \A p \in RegPaths :
        (Handles("ignored", p) /\ p \in DOMAIN filestats) =>
            /\ ~crashed'
            /\ filestats'[p].unprocessed = <<>>
            /\ filestats'[p].handlers = filestats[p].handlers
            /\ IF dir[p] # None
               THEN /\ filestats'[p].filehandle = dir[p]
                    /\ filestats'[p].position_in_file = Len(content[dir[p]])
                    /\ filestats'[p].watchdescriptor # None
                    /\ <<dir[p], p>> \in kwatch'
               ELSE /\ filestats'[p].filehandle = None
                    /\ filestats'[p].watchdescriptor = None

\* C17 (IGNORED handling): handling an IGNORED for a registered path closes
\* the handle and clears the carry; then, if the path exists on disk, the path
\* ends attached, with a handle freshly opened on the file that is there and
\* a live file-level watch on it; otherwise it ends detached, handle and
\* watch descriptor both absent.
C17_IgnoredHandling == [][C17_Step]_vars

\* the IGNORED that followed the removal of syslog was handled after syslog
\* had been created anew, the CREATE being still queued: the path is attached
\* to the new file
C17_Witness ==
    /\ SYSLOG \in DOMAIN filestats
    /\ hist[1].ino = 1
    /\ dir[SYSLOG] = 2
    /\ queue = <<Event("create", SYSLOG)>>
    /\ filestats[SYSLOG].filehandle = 2
    /\ filestats[SYSLOG].watchdescriptor = 2
    /\ <<2, SYSLOG>> \in kwatch

\* ------------------------------------------------------------ C18
\* C18 (detached-state invariant): in every state reached after add_handler,
\* a FileStats whose handle is absent has position_in_file = -1 and an empty
\* carry.
C18_DetachedState ==
    \A p \in DOMAIN filestats :
        filestats[p].filehandle = None =>
            /\ filestats[p].position_in_file = -1
            /\ filestats[p].unprocessed = <<>>

\* ------------------------------------------------------------ C19
\* C19 (carry invariant): in every reachable state the carry of every
\* registered path holds no newline, whatever the reads, truncations and
\* re-attachments were and however the bytes were cut into reads.
C19_CarryNoNewline ==
    \A p \in DOMAIN filestats :
        \A i \in 1..Len(filestats[p].unprocessed) : filestats[p].unprocessed[i] # NL

\* a read delivered a line and left bytes in the carry
C19_Witness ==
    /\ SYSLOG \in DOMAIN filestats
    /\ filestats[SYSLOG].unprocessed # <<>>
    /\ \E h \in HandlerIds : calls[h] # <<>>
    /\ Drained

\* ------------------------------------------------------------ C20
\* C20 (watch-id consistency): in every reachable state the watch descriptor
\* of a path is present if and only if the inotify instance holds a live
\* file-level watch for the path; once the file watch has been removed on
\* MOVED_FROM / DELETE the descriptor is absent.
C20_WatchIdConsistency ==
    \A p \in DOMAIN filestats :
        (filestats[p].watchdescriptor # None) <=> LiveWatch(p)

\* ------------------------------------------------------------ C21
\* the step is add_handler(p, h)
Registers(p, h) ==
    /\ Len(hist') = Len(hist) + 1
    /\ hist'[Len(hist')].op = "add_handler"
    /\ hist'[Len(hist')].name = p
    /\ hist'[Len(hist')].arg = h

\* the DirStats of the directory lists path p
Listed(p) == \E k \in 1..Len(dirstats) : dirstats[k] = p

C21_Inv ==
    Drained =>
        /\ \A p \in DOMAIN filestats : Listed(p) /\ dirwatch
        /\ dirwatch <=> dirstats # <<>>

C21_Step ==
    \A p \in RegPaths, h \in HandlerIds :
        Registers(p, h) => /\ Listed(p)'
                           /\ dirwatch'
                           /\ ~crashed'

\* C21 (directory-registry invariant): after every add_handler(path, handler)
\* call, and after any later sequence of events has been handled, the DirStats
\* of the directory of every registered path lists the path and the directory
\* carries the directory-level watch; the directory carries the watch if and
\* only if it has a non-empty DirStats; whether or not the file exists when
\* add_handler is called.
C21_DirRegistry == []C21_Inv /\ [][C21_Step]_vars

\* ------------------------------------------------------------ C22
\* C22 (DirStats members form a set): after any sequence of add_handler calls
\* and events, each registered path occurs exactly once in the filenames of
\* its directory, so there are never more filenames than registered paths.
C22_MembersFormSet ==
    /\ \A p \in DOMAIN filestats : Count(p, dirstats) = 1
    /\ Len(dirstats) <= Cardinality(DOMAIN filestats)

\* ------------------------------------------------------------ C23
\* the segments of s that "\n", and nothing else, separates: one more than
\* there are newlines in s, empty ones included
RECURSIVE SplitNL(_)
SplitNL(s) ==
    IF FirstNL(s) = 0 THEN <<s>>
    ELSE <<SubSeq(s, 1, FirstNL(s) - 1)>> \o SplitNL(SubSeq(s, FirstNL(s) + 1, Len(s)))

\* the lines claimed for a read of chunk with the given carry
LinesOf(carry, chunk) ==
    IF rindex(chunk) = 0 THEN <<>>
    ELSE SplitNL(carry \o SubSeq(chunk, 1, rindex(chunk) - 1))

C23_Step ==
    \A p \in RegPaths :
        (/\ Handles("modify", p)
         /\ p \in DOMAIN filestats
         /\ filestats[p].filehandle # None) =>
            LET fs == filestats[p]
            IN \A h \in HandlerIds :
                  Received(h) = Repeat(LinesOf(CarryBefore(fs), ReadBytes(fs)),
                                       Occurrences(h, fs.handlers))

\* C23 (line splitting): for every carry and every chunk read, the lines that
\* process_modify dispatches are exactly the segments of carry + chunk up to
\* the chunk's last "\n", separated by "\n" and by nothing else: a lone "\r"
\* stays inside its line, "\r\n" gives a line ending in "\r", and an empty
\* segment between two newlines (or before the first newline when the carry
\* is empty) is dispatched as an empty line.
C23_LineSplitting == [][C23_Step]_vars

\* ------------------------------------------------------------ C24
\* the step handles a MODIFY for the attached path p and the read fails
FailedRead(p) ==
    /\ ~crashed
    /\ queue # <<>>
    /\ Head(queue) = Event("modify", p)
    /\ p \in DOMAIN filestats
    /\ filestats[p].filehandle # None
    /\ Len(hist') = Len(hist) + 1
    /\ hist'[Len(hist')].op = "ioerror"

\* the history is: add_handler on the existing syslog, which ends with a
\* newline, then writes to that file and reads of it that failed, each failed
\* read being followed by a later write
AppendsAndRetries ==
    /\ hist # <<>>
    /\ IsOp(1, "add_handler", SYSLOG)
    /\ hist[1].ino = 1
    /\ \A k \in 2..Len(hist) : /\ hist[k].op \in {"write", "ioerror"}
                               /\ hist[k].ino = 1
    /\ \A k \in 2..Len(hist) :
          hist[k].op = "ioerror" => \E j \in (k + 1)..Len(hist) : hist[j].op = "write"
    /\ content[1][Len(content[1]) - Len(Written(1, 2, Len(hist)))] = NL

C24_Step ==
    \A p \in RegPaths :
        FailedRead(p) =>
            /\ filestats'[p].position_in_file = filestats[p].position_in_file
            /\ filestats'[p].unprocessed = filestats[p].unprocessed
            /\ calls' = calls
            /\ ~crashed'

C24_Inv ==
    (AppendsAndRetries /\ Drained) =>
        calls[hist[1].arg] = CompleteLines(Written(1, 2, Len(hist)))

\* C24 (a read failure leaves the state untouched): when the read of an
\* attached path fails with an IO error, at filehandle.read() or at
\* filehandle.tell(), process_modify returns with position_in_file and the
\* carry as they were before the call and without having called a handler, so
\* that the MODIFY that follows delivers the lines the failed call would have
\* delivered: once the events are drained every complete line appended has
\* been delivered exactly once.
C24_ReadFailure == []C24_Inv /\ [][C24_Step]_vars

\* ------------------------------------------------------------ C25
\* the calls made for one line: one per entry of handlers, in that order
CallsForLine(line, handlers) == [j \in 1..Len(handlers) |-> <<handlers[j], line>>]

\* line-major order: all the calls for a line, then those for the next line
RECURSIVE LineMajor(_, _)
LineMajor(lines, handlers) ==
    IF lines = <<>> THEN <<>>
    ELSE CallsForLine(Head(lines), handlers) \o LineMajor(Tail(lines), handlers)

\* the calls of process() the step made, in the order made
Dispatched == SubSeq(dispatched', Len(dispatched) + 1, Len(dispatched'))

C25_Step ==
    \A p \in RegPaths :
        (/\ Handles("modify", p)
         /\ p \in DOMAIN filestats
         /\ filestats[p].filehandle # None) =>
            /\ Dispatched = LineMajor(ReadLines(filestats[p]).lines, filestats[p].handlers)
            /\ \A h \in HandlerIds :
                  Len(Received(h)) = Len(ReadLines(filestats[p]).lines)
                                       * Occurrences(h, filestats[p].handlers)

\* every call made is in the calls of its handler
C25_Inv ==
    \A h \in HandlerIds :
        Len(calls[h]) = Cardinality({k \in 1..Len(dispatched) : dispatched[k][1] = h})

\* C25 (dispatch order): within one read, the calls of process() are made
\* line-major: for the lines of the read in file order and, for each line, for
\* the handlers of the path in registration order; so every handler has
\* received line k before any handler receives line k+1, and a handler
\* registered twice for the path receives each line twice.
C25_DispatchOrder == []C25_Inv /\ [][C25_Step]_vars

\* one read gave two lines to two handlers, the raising handler registered
\* first: each line went to the raiser, then to the recorder
C25_Witness ==
    /\ SYSLOG \in DOMAIN filestats
    /\ filestats[SYSLOG].handlers = <<BAD, REC>>
    /\ Len(dispatched) = 4
    /\ dispatched[1][1] = BAD
    /\ dispatched[2] = <<REC, dispatched[1][2]>>
    /\ dispatched[3][1] = BAD
    /\ dispatched[4] = <<REC, dispatched[3][2]>>
    /\ dispatched[3][2] # dispatched[1][2]
    /\ Len(hist) = 4
    /\ hist[3].op = "write"
    /\ hist[4].op = "write"

\* ------------------------------------------------------------ C26
\* the characters of the lines ls
Chars(s) == {s[i] : i \in 1..Len(s)}
CharsOf(ls) == UNION {Chars(ls[k]) : k \in 1..Len(ls)}

C26_Step ==
    \A p \in RegPaths : \A t \in {"create", "moved_to"} :
        (Handles(t, p) /\ Attached(p)) =>
            LET fs == filestats[p]
            IN /\ ~crashed'
               /\ filestats'[p].watchdescriptor = fs.watchdescriptor
               /\ filestats'[p].filehandle = fs.filehandle
               /\ filestats'[p].fd = fs.fd
               /\ filestats'[p].handlers = fs.handlers
               /\ kwatch' = kwatch
               /\ wpaths' = wpaths
               /\ fds'.opened = fds.opened
               /\ t = "moved_to" =>
                     /\ filestats'[p] = fs
                     /\ calls' = calls
               /\ t = "create" =>
                     /\ filestats'[p].position_in_file = ReadLines(fs).position_in_file
                     /\ filestats'[p].position_in_file >= Len(content[fs.filehandle])
                     /\ \A h \in HandlerIds :
                           /\ Received(h) = Repeat(ReadLines(fs).lines,
                                                   Occurrences(h, fs.handlers))
                           /\ CharsOf(Received(h)) \subseteq
                                 Chars(CarryBefore(fs) \o ReadBytes(fs))

OpenHandles(p) == fds.open[p]

\* C27 (no handle leak): in every reachable state a registered path has at
\* most one open handle, the one its FileStats holds; the handles opened
\* before a rotation, a re-attachment or a detachment are closed: no handle is
\* open once the file-level watch of the path has been removed, and once the
\* events are handled an open handle is on the file that is at the path now;
\* and the carry holds only bytes read through the handle that is open.
C27_NoHandleLeak ==
    \A p \in DOMAIN filestats :
        /\ Cardinality(OpenHandles(p)) <= 1
        /\ OpenHandles(p) = IF filestats[p].filehandle = None THEN {} ELSE {filestats[p].fd}
        /\ wpaths[p] = None => OpenHandles(p) = {}
        /\ Drained => (filestats[p].filehandle # None => filestats[p].filehandle = dir[p])
        /\ fds.carry[p] \subseteq OpenHandles(p)
        /\ filestats[p].unprocessed # <<>> => fds.carry[p] # {}

\* ------------------------------------------------------------ typing
TypeOK ==
    /\ \A n \in Names : dir[n] \in 0..Len(content)
    /\ DOMAIN filestats \subseteq RegPaths
    /\ Len(hist) <= MaxOps + 1
    /\ Len(content) <= MaxInodes

====
